---- MODULE Spec2Model ----
(***************************************************************************)
(* Model management of the vLLM router (router/app/main.py): the container *)
(* classifier get_container_status, the status snapshot get_models_status, *)
(* the handlers start_model, stop_model, restart_model and the coroutine   *)
(* switch_model, which is interleaved with other requests at its awaits.   *)
(*                                                                         *)
(* Memory figures are whole GB.  nvidia-smi readings are MB figures that   *)
(* are multiples of 1024, for which round(mb / 1024, 2) is the quotient.   *)
(***************************************************************************)
EXTENDS Integers, Sequences, FiniteSets, TLC

\* ------------------------------------------------------------------------
\* Bounds of the model
\* ------------------------------------------------------------------------

\* handler invocations (start, stop, restart, switch) in one behaviour
MaxCalls == 2

\* phrases in one log tail
MaxPhrases == 2

\* concurrent switch_model requests
Procs == {"r1", "r2"}

\* the request followed when switch_model runs among other handlers
Solo == "r1"

\* total memory of the card of the deployment, in MB as nvidia-smi prints it
\* (96 GB), and of a card smaller than the largest model (48 GB)
DeployedGpuMB == 96 * 1024

SmallGpuMB == 48 * 1024

\* free memory (GB) behind the readings of nvidia-smi that are tried
AvailReadingsGB == {0, 5, 20, 43, 86}

\* names a request may carry: the registry's and one it does not know
RequestNames ==
    {"gpt-oss-120b", "gpt-oss-20b", "deepseek-coder-33b-instruct", "mistral-7b-v0.1",
     "no-such-model"}

\* what the model cache holds for a model: nothing, a partial download, all files
Artifacts == {"absent", "partial", "complete"}

\* ------------------------------------------------------------------------
\* Static tables
\* ------------------------------------------------------------------------

\* dict order of CONTAINER_NAMES
ModelOrder ==
    << "gpt-oss-120b", "gpt-oss-20b", "deepseek-coder-33b-instruct", "mistral-7b-v0.1" >>

CONTAINER_NAMES ==
    ("gpt-oss-120b" :> "vllm-gpt-oss-120b") @@
    ("gpt-oss-20b" :> "vllm-gpt-oss-20b") @@
    ("deepseek-coder-33b-instruct" :> "vllm-coder") @@
    ("mistral-7b-v0.1" :> "vllm-general")

Models == DOMAIN CONTAINER_NAMES

MODEL_METADATA ==
    ("gpt-oss-120b" :> [gpu_memory_gb |-> 81, load_time_seconds |-> 61]) @@
    ("gpt-oss-20b" :> [gpu_memory_gb |-> 19, load_time_seconds |-> 15]) @@
    ("deepseek-coder-33b-instruct" :> [gpu_memory_gb |-> 43, load_time_seconds |-> 20]) @@
    ("mistral-7b-v0.1" :> [gpu_memory_gb |-> 10, load_time_seconds |-> 8])

\* metadata.get("gpu_memory_gb", 0)
gpu_memory_gb(m) ==
    IF m \in DOMAIN MODEL_METADATA THEN MODEL_METADATA[m].gpu_memory_gb ELSE 0

\* asyncio.sleep(15) after each unloaded model
RELEASE_SLEEP == 15

\* the bounded release wait of the startup path: 20 cycles of 3 seconds
max_wait_cycles == 20

POLL_SECONDS == 3

ReleaseTimeout == max_wait_cycles * POLL_SECONDS

LOADING_UPTIME == 60

STUCK_UPTIME == 90

OVERHEAD_BUFFER_GB == 5

\* ------------------------------------------------------------------------
\* Sums and sequences
\* ------------------------------------------------------------------------

RECURSIVE SumMem(_)
SumMem(S) ==
    IF S = {} THEN 0
    ELSE LET m == CHOOSE x \in S : TRUE
         IN  gpu_memory_gb(m) + SumMem(S \ {m})

Range(s) == { s[i] : i \in 1..Len(s) }

Prefix(s, n) == SubSeq(s, 1, n)

\* ------------------------------------------------------------------------
\* Containers as docker reports them
\* ------------------------------------------------------------------------

\* phrases a log tail may hold, and the needles each phrase contains
\* ("memory" is searched in logs.lower(), every other needle as written)
Needles(phrase) ==
    CASE phrase = "CUDA out of memory" -> {"CUDA out of memory", "CUDA", "memory"}
      [] phrase = "OutOfMemory" -> {"OutOfMemory", "memory"}
      [] phrase = "Free memory" -> {"Free memory", "memory"}
      [] phrase = "GPU memory utilization" -> {"GPU memory utilization", "GPU", "memory"}
      [] phrase = "gpu_memory_utilization" -> {"gpu_memory_utilization", "memory"}
      [] phrase = "out of memory" -> {"memory"}
      [] phrase = "Engine core initialization failed" -> {"Engine core initialization failed"}
      [] phrase = "RuntimeError" -> {"RuntimeError"}
      [] phrase = "CUDA" -> {"CUDA"}
      [] OTHER -> {}

\* needle in logs
InLogs(needle, logs) == \E phrase \in logs : needle \in Needles(phrase)

Absent ==
    [status |-> "not_found", exit_code |-> 0, uptime |-> 0, health |-> "none",
     logs |-> {}, http |-> "unhealthy"]

\* a container right after docker start / compose up / docker restart
Fresh ==
    [status |-> "running", exit_code |-> 0, uptime |-> 0, health |-> "starting",
     logs |-> {}, http |-> "unhealthy"]

\* a container serving requests
Serving ==
    [status |-> "running", exit_code |-> 0, uptime |-> 75, health |-> "healthy",
     logs |-> {}, http |-> "healthy"]

\* a container after docker stop
Exited0 ==
    [status |-> "exited", exit_code |-> 0, uptime |-> 0, health |-> "none",
     logs |-> {}, http |-> "unhealthy"]

\* a server that died while loading
Crashed(logs) ==
    [status |-> "exited", exit_code |-> 1, uptime |-> 0, health |-> "none",
     logs |-> logs, http |-> "unhealthy"]

\* ------------------------------------------------------------------------
\* get_gpu_memory_info
\* ------------------------------------------------------------------------

\* what nvidia-smi answers: a reading, or no answer from any container
Readings(total_mb) ==
    { [ok |-> TRUE, used_mb |-> total_mb - a * 1024, total_mb |-> total_mb] :
          a \in { x \in AvailReadingsGB : x * 1024 <= total_mb } }
    \cup { [ok |-> FALSE, used_mb |-> 0, total_mb |-> 0] }

get_gpu_memory_info(reading) ==
    IF reading.ok
    THEN [used_gb |-> reading.used_mb \div 1024,
          total_gb |-> reading.total_mb \div 1024,
          available_gb |-> (reading.total_mb - reading.used_mb) \div 1024]
    ELSE [used_gb |-> 0, total_gb |-> 0, available_gb |-> 0]

\* ------------------------------------------------------------------------
\* get_container_status: the state of one container
\*   c        the container as docker reports it
\*   m        the model the container serves
\*   log_ok   docker logs answered
\*   gpu_info the GPU reading taken for the memory cross-check
\* ------------------------------------------------------------------------

\* the explicit GPU memory errors searched in the log of an exited container
explicit_gpu_memory_error_none(logs) == FALSE

explicit_gpu_memory_error(logs) ==
    \/ InLogs("Free memory", logs) \/ InLogs("GPU memory utilization", logs)
    \/ InLogs("gpu_memory_utilization", logs)
    \/ InLogs("OutOfMemory", logs) \/ InLogs("CUDA out of memory", logs)

\* the engine initialization failure searched after them
engine_initialization_failed(logs) ==
    InLogs("Engine core initialization failed", logs) /\ InLogs("RuntimeError", logs)

\* the memory cross-check without its buffer
likely_insufficient_noBuffer(required_gb, available_gb) == required_gb > available_gb

\* the memory cross-check of an engine initialization failure
likely_insufficient(required_gb, available_gb) ==
    required_gb > available_gb + OVERHEAD_BUFFER_GB

\* an exited container whose status is left as docker reports it
inconclusive_unset(status) == status

\* no known error in the log, or no log: result["status"] = "failed"
inconclusive(status) == "failed"

get_container_status(c, m, log_ok, gpu_info) ==
    IF c.status = "not_found" THEN "not_found"
    ELSE IF c.status = "running" THEN
        IF c.uptime < LOADING_UPTIME THEN "loading"
        ELSE IF /\ c.uptime > STUCK_UPTIME
                /\ c.health = "starting"
                /\ log_ok
                /\ (InLogs("Engine core initialization failed", c.logs)
                      \/ InLogs("RuntimeError", c.logs))
             THEN IF InLogs("CUDA", c.logs) \/ InLogs("GPU", c.logs)
                       \/ InLogs("memory", c.logs)
                  THEN "insufficient_gpu_ram"
                  ELSE "failed"
             ELSE "running"
    ELSE IF c.status = "exited" /\ c.exit_code # 0 THEN
        IF log_ok THEN
            IF explicit_gpu_memory_error(c.logs)
            THEN "insufficient_gpu_ram"
            ELSE IF engine_initialization_failed(c.logs)
                 THEN IF likely_insufficient(gpu_memory_gb(m), gpu_info.available_gb)
                      THEN "insufficient_gpu_ram"
                      ELSE "failed"
                 ELSE inconclusive(c.status)
        ELSE inconclusive(c.status)
    ELSE c.status

\* ------------------------------------------------------------------------
\* What a status read asks docker and the GPU beyond docker inspect
\* ------------------------------------------------------------------------

\* the branches of get_container_status that run docker logs
ReadsLogs(c) ==
    \/ c.status = "exited" /\ c.exit_code # 0
    \/ c.status = "running" /\ c.uptime > STUCK_UPTIME /\ c.health = "starting"

\* the branch of get_container_status that samples the GPU
ReadsGpu(c) ==
    /\ c.status = "exited" /\ c.exit_code # 0
    /\ InLogs("Engine core initialization failed", c.logs)
    /\ InLogs("RuntimeError", c.logs)

NoReading == [ok |-> FALSE, used_mb |-> 0, total_mb |-> 0]

\* the answers of docker logs a status read of the containers in S can see
LogAnswers(cs, S) == IF \E m \in S : ReadsLogs(cs[m]) THEN BOOLEAN ELSE {TRUE}

\* the GPU readings a status read of the containers in S can see
GpuAnswers(cs, S, total_mb) ==
    IF \E m \in S : ReadsGpu(cs[m]) THEN Readings(total_mb) ELSE {NoReading}

\* a probe that always answers healthy
check_backend_health_always(c) == "healthy"

\* check_backend_health: the /health probe of the backend
check_backend_health(c) ==
    IF c.status = "running" /\ c.http = "healthy" THEN "healthy" ELSE "unhealthy"

\* ------------------------------------------------------------------------
\* get_models_status: the status string of model m in the snapshot
\* ------------------------------------------------------------------------

get_models_status(cs, m, log_ok, gpu_info) ==
    LET raw == get_container_status(cs[m], m, log_ok, gpu_info)
        probed == IF raw = "running" /\ check_backend_health(cs[m]) # "healthy"
                  THEN "loading" ELSE raw
        required_gb == gpu_memory_gb(m)
    IN  IF probed \in {"exited", "not_found", "insufficient_gpu_ram"}
        THEN IF required_gb > gpu_info.total_gb THEN "insufficient_gpu_ram"
             ELSE IF required_gb > gpu_info.available_gb THEN "requires_unload"
             ELSE IF probed = "insufficient_gpu_ram" THEN "exited"
             ELSE probed
        ELSE probed

\* ------------------------------------------------------------------------
\* check_model_downloaded
\* ------------------------------------------------------------------------

check_model_downloaded(artifact) ==
    IF artifact = "absent" THEN [downloaded |-> FALSE, downloading |-> FALSE]
    ELSE IF artifact = "partial" THEN [downloaded |-> FALSE, downloading |-> TRUE]
    ELSE [downloaded |-> TRUE, downloading |-> FALSE]

\* ------------------------------------------------------------------------
\* docker commands: their effect on the container they name
\* ------------------------------------------------------------------------

\* docker stop: a running container exits, any other is left as it is
docker_stop(c) == IF c.status = "running" THEN Exited0 ELSE c

\* docker start of an exited container
docker_start(c) == Fresh

\* docker compose up -d: creates and starts, a running container is left as it is
compose_up(c) == IF c.status = "running" THEN c ELSE Fresh

\* docker rm -f
docker_rm(c) == Absent

\* docker restart
docker_restart(c) == Fresh

\* ------------------------------------------------------------------------
\* start_model, stop_model, restart_model
\*   cs       all containers
\*   name     the model named by the request
\*   ok       the docker command succeeded
\* each returns the containers afterwards, the HTTP outcome and the docker
\* commands issued, in the order they were issued
\* ------------------------------------------------------------------------

\* no container is taken for failed
in_failed_state_never(status) == FALSE

\* the container is in failed state: it is removed and recreated
in_failed_state(status) == status \in {"failed", "insufficient_gpu_ram"}

start_model(cs, name, artifact, log_ok, gpu_info, ok) ==
    IF name \notin DOMAIN CONTAINER_NAMES
    THEN [cont |-> cs, result |-> "http_404", cmds |-> << >>]
    ELSE
    LET download_info == check_model_downloaded(artifact)
        status == get_container_status(cs[name], name, log_ok, gpu_info)
    IN  IF download_info.downloading \/ ~download_info.downloaded
        THEN [cont |-> cs, result |-> "http_400", cmds |-> << >>]
        ELSE IF status = "running"
        THEN [cont |-> cs, result |-> "running", cmds |-> << >>]
        ELSE IF in_failed_state(status)
        THEN IF ok
             THEN [cont |-> [cs EXCEPT ![name] = compose_up(docker_rm(cs[name]))],
                   result |-> "starting", cmds |-> << "rm", "up" >>]
             ELSE [cont |-> [cs EXCEPT ![name] = docker_rm(cs[name])],
                   result |-> "http_500", cmds |-> << "rm", "up" >>]
        ELSE IF status = "exited"
        THEN IF ok
             THEN [cont |-> [cs EXCEPT ![name] = docker_start(cs[name])],
                   result |-> "starting", cmds |-> << "start" >>]
             ELSE [cont |-> cs, result |-> "http_500", cmds |-> << "start" >>]
        ELSE IF ok
             THEN [cont |-> [cs EXCEPT ![name] = compose_up(cs[name])],
                   result |-> "starting", cmds |-> << "up" >>]
             ELSE [cont |-> cs, result |-> "http_500", cmds |-> << "up" >>]

\* no status is taken for not running
not_running_never(status) == FALSE

\* the container is not running: there is nothing to stop
not_running(status) == status \in {"exited", "not_found"}

stop_model(cs, name, log_ok, gpu_info, ok) ==
    IF name \notin DOMAIN CONTAINER_NAMES
    THEN [cont |-> cs, result |-> "http_404", cmds |-> << >>]
    ELSE
    LET status == get_container_status(cs[name], name, log_ok, gpu_info)
    IN  IF not_running(status)
        THEN [cont |-> cs, result |-> status, cmds |-> << >>]
        ELSE IF ok
        THEN [cont |-> [cs EXCEPT ![name] = docker_stop(cs[name])],
              result |-> "stopped", cmds |-> << "stop" >>]
        ELSE [cont |-> cs, result |-> "http_500", cmds |-> << "stop" >>]

\* docker restart whatever the name
restart_model_unchecked(cs, name, ok) ==
    [cont |-> cs, result |-> IF ok THEN "restarting" ELSE "http_500",
     cmds |-> << "restart" >>]

restart_model(cs, name, ok) ==
    IF name \notin DOMAIN CONTAINER_NAMES
    THEN [cont |-> cs, result |-> "http_404", cmds |-> << >>]
    ELSE IF ok /\ cs[name].status # "not_found"
    THEN [cont |-> [cs EXCEPT ![name] = docker_restart(cs[name])],
          result |-> "restarting", cmds |-> << "restart" >>]
    ELSE [cont |-> cs, result |-> "http_500", cmds |-> << "restart" >>]

\* ------------------------------------------------------------------------
\* State
\* ------------------------------------------------------------------------

VARIABLES
    cont,           \* model name -> its container as docker reports it
    gpu_total_mb,   \* total memory of the GPU of this deployment
    sw,             \* request -> the frame of its switch_model coroutine
    calls,          \* handler invocations so far
    read,           \* the entry of the last GET /v1/models/status that was built
    diagnosed,      \* models an entry has shown failed or out of GPU memory
                    \* with no successful start_model since
    last,           \* the last request to /start, /stop or /restart and its answer
    boot            \* the frame of lifespan, the startup of the router

vars == << cont, gpu_total_mb, sw, calls, read, diagnosed, last, boot >>

\* no request to /start, /stop or /restart has been answered
NoCall ==
    [op |-> "none", name |-> "none", c |-> Absent, status |-> "none",
     artifact |-> "none", result |-> "none", cmds |-> << >>]

\* the answers are not kept
Unrecorded == [NoCall EXCEPT !.op = "unrecorded"]

\* what a request found and what it was answered: the container of the
\* named model and its status before, the answer and the commands issued;
\* kept only in the specifications that start with NoCall
Answered(op, cs, name, status, artifact, r) ==
    IF last = Unrecorded THEN last
    ELSE [op |-> op, name |-> name,
          c |-> IF name \in DOMAIN CONTAINER_NAMES THEN cs[name] ELSE Absent,
          status |-> status, artifact |-> artifact, result |-> r.result,
          cmds |-> r.cmds]

\* the status a handler reads before it acts
StatusBefore(cs, name, log_ok, gpu_info) ==
    IF name \in DOMAIN CONTAINER_NAMES
    THEN get_container_status(cs[name], name, log_ok, gpu_info) ELSE "none"

\* the frame of lifespan before it runs
NotBooted ==
    [pc |-> "init", artifacts |-> [m \in Models |-> "absent"],
     downloaded_models |-> << >>, model_name |-> "none", status |-> "none",
     running_model_containers |-> << >>, stopped |-> 0, cycles |-> 0,
     available_gb |-> -1, should_start |-> TRUE, cmds |-> << >>]

\* lifespan has finished before the requests modelled here
BootOver == [NotBooted EXCEPT !.pc = "done"]

\* no entry has been built
NoRead ==
    [model |-> "none", c |-> Absent, log_ok |-> TRUE,
     gpu_info |-> get_gpu_memory_info(NoReading),
     container_status |-> "none", health |-> "none", status |-> "none",
     listed |-> FALSE]

\* the frame of a switch_model coroutine that has not been entered
IdleFrame ==
    [pc |-> "idle", target_model |-> "none",
     available_gb |-> -1, running_models |-> << >>,
     unloaded_models |-> << >>, freed_memory |-> 0,
     total_available |-> -1, start_result |-> "none", result |-> "none",
     stops |-> {}, waited |-> 0, sample_failed |-> FALSE, freed_gb |-> 0]

\* the state the classifier calls running and the /health probe healthy
RunningHealthy(c) ==
    c.status = "running" /\ c.uptime >= LOADING_UPTIME /\ c.http = "healthy"

\* containers that were stopped or serve, within the memory of the card
InitOn(total_mb) ==
    /\ gpu_total_mb = total_mb
    /\ cont \in [Models -> {Exited0, Serving}]
    /\ SumMem({m \in Models : cont[m] = Serving}) * 1024 <= gpu_total_mb
    /\ sw = [p \in Procs |-> IdleFrame]
    /\ calls = 0
    /\ read = NoRead
    /\ diagnosed = {}
    /\ last = Unrecorded
    /\ boot = BootOver

Init == InitOn(DeployedGpuMB)

\* ------------------------------------------------------------------------
\* The servers and docker, outside the router
\* ------------------------------------------------------------------------

\* a started container has been up for a minute
Age(m) ==
    /\ cont[m].status = "running"
    /\ cont[m].uptime < LOADING_UPTIME
    /\ cont' = [cont EXCEPT ![m].uptime = 75]
    /\ UNCHANGED << gpu_total_mb, sw, calls, read, diagnosed, last, boot >>

\* the server of a started container has loaded its model and answers /health
BecomeHealthy(m) ==
    /\ cont[m].status = "running"
    /\ cont[m].uptime >= LOADING_UPTIME
    /\ cont[m].http = "unhealthy"
    /\ cont' = [cont EXCEPT ![m].http = "healthy", ![m].health = "healthy"]
    /\ UNCHANGED << gpu_total_mb, sw, calls, read, diagnosed, last, boot >>

\* the server of a started container dies while it loads
Crash(m) ==
    /\ cont[m].status = "running"
    /\ cont[m].http = "unhealthy"
    /\ cont' = [cont EXCEPT ![m] = Crashed({"CUDA out of memory"})]
    /\ UNCHANGED << gpu_total_mb, sw, calls, read, diagnosed, last, boot >>

\* ------------------------------------------------------------------------
\* Requests to /start, /stop and /restart
\* ------------------------------------------------------------------------

Start(name) ==
    /\ calls < MaxCalls
    /\ \E artifact \in Artifacts, ok \in BOOLEAN,
          log_ok \in LogAnswers(cont, {name} \cap Models),
          reading \in GpuAnswers(cont, {name} \cap Models, gpu_total_mb) :
          LET r == start_model(cont, name, artifact, log_ok,
                               get_gpu_memory_info(reading), ok)
          IN  /\ cont' = r.cont
              /\ diagnosed' = IF r.result \in {"starting", "running"} THEN diagnosed \ {name}
                               ELSE diagnosed
              /\ last' = Answered("start", cont, name,
                                  StatusBefore(cont, name, log_ok,
                                               get_gpu_memory_info(reading)),
                                  artifact, r)
    /\ calls' = calls + 1
    /\ UNCHANGED << gpu_total_mb, sw, read, boot >>

Stop(name) ==
    /\ calls < MaxCalls
    /\ \E ok \in BOOLEAN,
          log_ok \in LogAnswers(cont, {name} \cap Models),
          reading \in GpuAnswers(cont, {name} \cap Models, gpu_total_mb) :
          LET r == stop_model(cont, name, log_ok, get_gpu_memory_info(reading), ok)
          IN  /\ cont' = r.cont
              /\ last' = Answered("stop", cont, name,
                                  StatusBefore(cont, name, log_ok,
                                               get_gpu_memory_info(reading)),
                                  "none", r)
    /\ calls' = calls + 1
    /\ UNCHANGED << gpu_total_mb, sw, read, diagnosed, boot >>

Restart(name) ==
    /\ calls < MaxCalls
    /\ \E ok \in BOOLEAN :
          LET r == restart_model(cont, name, ok)
          IN  /\ cont' = r.cont
              /\ last' = Answered("restart", cont, name, "none", "none", r)
    /\ calls' = calls + 1
    /\ UNCHANGED << gpu_total_mb, sw, read, diagnosed, boot >>

\* ------------------------------------------------------------------------
\* switch_model
\* ------------------------------------------------------------------------

\* the sort without reverse=True: smallest first
RECURSIVE SortSmallestFirst(_)
SortSmallestFirst(s) ==
    IF s = << >> THEN << >>
    ELSE LET front == SortSmallestFirst(SubSeq(s, 1, Len(s) - 1))
             m == s[Len(s)]
             k == Cardinality({ i \in 1..Len(front) :
                                  gpu_memory_gb(front[i]) <= gpu_memory_gb(m) })
         IN  SubSeq(front, 1, k) \o << m >> \o SubSeq(front, k + 1, Len(front))

\* s.sort(key=gpu_memory_gb, reverse=True): stable, largest first
RECURSIVE SortLargestFirst(_)
SortLargestFirst(s) ==
    IF s = << >> THEN << >>
    ELSE LET front == SortLargestFirst(SubSeq(s, 1, Len(s) - 1))
             m == s[Len(s)]
             k == Cardinality({ i \in 1..Len(front) :
                                  gpu_memory_gb(front[i]) >= gpu_memory_gb(m) })
         IN  SubSeq(front, 1, k) \o << m >> \o SubSeq(front, k + 1, Len(front))

\* Step 1 without its early return
AlreadyLoaded_never(c, name, log_ok, gpu_info) == FALSE

\* Step 1: the target is already running and healthy
AlreadyLoaded(c, name, log_ok, gpu_info) ==
    /\ get_container_status(c, name, log_ok, gpu_info) = "running"
    /\ check_backend_health(c) = "healthy"

\* Step 4 entered also when the free memory equals the requirement
NeedsUnload_orEqual(available_gb, required_memory_gb) == available_gb <= required_memory_gb

\* Step 4, condition: models have to be unloaded
NeedsUnload(available_gb, required_memory_gb) == available_gb < required_memory_gb

\* Step 4 without the exclusion of the target
IsCandidate_anyRunning(model_name, target_model, model_status) == model_status = "running"

\* Step 4, candidates: a model of the snapshot that may be unloaded
IsCandidate(model_name, target_model, model_status) ==
    model_name # target_model /\ model_status = "running"

\* Step 4: the running models, largest first
RunningModels(cs, target_model, log_ok, gpu_info) ==
    SortLargestFirst(
        SelectSeq(ModelOrder,
                  LAMBDA m : IsCandidate(m, target_model,
                                         get_models_status(cs, m, log_ok, gpu_info))))

\* the unload loop without its break
LoopContinues_noBreak(f) == Len(f.unloaded_models) < Len(f.running_models)

\* the loop over running_models goes on: a model is left and memory is short
LoopContinues(f) ==
    /\ Len(f.unloaded_models) < Len(f.running_models)
    /\ ~(f.available_gb + f.freed_memory >= gpu_memory_gb(f.target_model))

\* the refreshed reading never found short
StillShort_never(total_available, required_memory_gb) == FALSE

\* after the loop: the refreshed reading is still below the requirement
StillShort(total_available, required_memory_gb) == total_available < required_memory_gb

\* no call of a handler raises
Raised_never(result) == FALSE

\* the awaited handler raised HTTPException, which switch_model does not catch
Raised(result) == result \in {"http_400", "http_404", "http_500"}

\* a switch between its planning step and the end of its start step
InFlight(f) == f.pc \in {"sample", "evict", "start"}

\* the request enters the handler: validation and Step 1
SwitchBegin(p, name) ==
    /\ calls < MaxCalls
    /\ sw[p].pc = "idle"
    /\ calls' = calls + 1
    /\ \E log_ok \in LogAnswers(cont, {name} \cap Models),
          reading \in GpuAnswers(cont, {name} \cap Models, gpu_total_mb) :
          sw' = [sw EXCEPT ![p] =
                   IF name \notin DOMAIN CONTAINER_NAMES
                   THEN [IdleFrame EXCEPT !.pc = "done", !.target_model = name,
                                          !.result = "http_404"]
                   ELSE IF AlreadyLoaded(cont[name], name, log_ok,
                                         get_gpu_memory_info(reading))
                   THEN [IdleFrame EXCEPT !.pc = "done", !.target_model = name,
                                          !.result = "already_loaded"]
                   ELSE [IdleFrame EXCEPT !.pc = "sample", !.target_model = name]]
    /\ UNCHANGED << cont, gpu_total_mb, read, diagnosed, last, boot >>

\* Steps 2 to 4, up to the sorted list of running models
SwitchSample(p) ==
    /\ sw[p].pc = "sample"
    /\ \E reading \in Readings(gpu_total_mb),
          reading2 \in GpuAnswers(cont, Models, gpu_total_mb),
          log_ok \in LogAnswers(cont, Models) :
          LET gpu_info == get_gpu_memory_info(reading)
              f == sw[p]
          IN  sw' = [sw EXCEPT ![p] =
                       IF NeedsUnload(gpu_info.available_gb, gpu_memory_gb(f.target_model))
                       THEN [f EXCEPT !.pc = "evict",
                                      !.sample_failed = ~reading.ok,
                                      !.available_gb = gpu_info.available_gb,
                                      !.running_models =
                                          RunningModels(cont, f.target_model, log_ok,
                                                        get_gpu_memory_info(reading2))]
                       ELSE [f EXCEPT !.pc = "start",
                                      !.sample_failed = ~reading.ok,
                                      !.available_gb = gpu_info.available_gb]]
    /\ UNCHANGED << cont, gpu_total_mb, calls, read, diagnosed, last, boot >>

\* one round of the unload loop: stop_model, bookkeeping, sleep
SwitchEvict(p) ==
    /\ sw[p].pc = "evict"
    /\ LoopContinues(sw[p])
    /\ \E ok \in BOOLEAN,
          log_ok \in LogAnswers(cont, {sw[p].running_models[Len(sw[p].unloaded_models) + 1]}),
          reading \in GpuAnswers(cont, {sw[p].running_models[Len(sw[p].unloaded_models) + 1]},
                                 gpu_total_mb) :
          LET f == sw[p]
              model == f.running_models[Len(f.unloaded_models) + 1]
              r == stop_model(cont, model, log_ok, get_gpu_memory_info(reading), ok)
          IN  /\ cont' = r.cont
              /\ sw' = [sw EXCEPT ![p] =
                          IF Raised(r.result)
                          THEN [f EXCEPT !.pc = "done", !.result = r.result,
                                         !.stops = f.stops \cup
                                             (IF r.cmds # << >> THEN {model} ELSE {})]
                          ELSE [f EXCEPT !.unloaded_models = Append(@, model),
                                         !.freed_memory = @ + gpu_memory_gb(model),
                                         !.stops = f.stops \cup
                                             (IF r.cmds # << >> THEN {model} ELSE {}),
                                         !.waited = RELEASE_SLEEP]]
    /\ UNCHANGED << gpu_total_mb, calls, read, diagnosed, last, boot >>

\* after the loop: the refreshed reading and the insufficient_memory answer
SwitchResample(p) ==
    /\ sw[p].pc = "evict"
    /\ ~LoopContinues(sw[p])
    /\ \E reading \in Readings(gpu_total_mb) :
          LET total_available == get_gpu_memory_info(reading).available_gb
              f == sw[p]
          IN  sw' = [sw EXCEPT ![p] =
                       IF StillShort(total_available, gpu_memory_gb(f.target_model))
                       THEN [f EXCEPT !.pc = "done", !.result = "insufficient_memory",
                                      !.sample_failed = @ \/ ~reading.ok,
                                      !.total_available = total_available]
                       ELSE [f EXCEPT !.pc = "start",
                                      !.sample_failed = @ \/ ~reading.ok,
                                      !.total_available = total_available]]
    /\ UNCHANGED << cont, gpu_total_mb, calls, read, diagnosed, last, boot >>

\* sum([m["gpu_memory_gb"] for m in s])
RECURSIVE SumList(_)
SumList(s) ==
    IF s = << >> THEN 0 ELSE gpu_memory_gb(s[1]) + SumList(SubSeq(s, 2, Len(s)))

\* memory_info.freed_gb summed over all of running_models
freed_gb_all(running_models, unloaded_models) == SumList(running_models)

\* memory_info.freed_gb of the success answer: the gpu_memory_gb of the
\* entries of running_models whose name is in unloaded_models
freed_gb(running_models, unloaded_models) ==
    IF unloaded_models = << >> THEN 0
    ELSE SumList(SelectSeq(running_models, LAMBDA m : m \in Range(unloaded_models)))

\* Step 5: start_model(target_model) and the success answer
SwitchStart(p) ==
    /\ sw[p].pc = "start"
    /\ \E artifact \in Artifacts, ok \in BOOLEAN,
          log_ok \in LogAnswers(cont, {sw[p].target_model}),
          reading \in GpuAnswers(cont, {sw[p].target_model}, gpu_total_mb) :
          LET f == sw[p]
              r == start_model(cont, f.target_model, artifact, log_ok,
                               get_gpu_memory_info(reading), ok)
          IN  /\ cont' = r.cont
              /\ sw' = [sw EXCEPT ![p] =
                          IF Raised(r.result)
                          THEN [f EXCEPT !.pc = "done", !.result = r.result]
                          ELSE [f EXCEPT !.pc = "done", !.result = "success",
                                         !.start_result = r.result,
                                         !.freed_gb = freed_gb(f.running_models,
                                                               f.unloaded_models)]]
              /\ diagnosed' = IF r.result \in {"starting", "running"}
                               THEN diagnosed \ {f.target_model} ELSE diagnosed
    /\ UNCHANGED << gpu_total_mb, calls, read, last, boot >>

\* the answer has been sent
SwitchReturn(p) ==
    /\ sw[p].pc = "done"
    /\ sw' = [sw EXCEPT ![p] = IdleFrame]
    /\ UNCHANGED << cont, gpu_total_mb, calls, read, diagnosed, last, boot >>

\* ------------------------------------------------------------------------
\* Specification
\* ------------------------------------------------------------------------

\* one switch_model request among start, stop and restart requests
Next ==
    \/ \E m \in Models : Age(m)
    \/ \E m \in Models : BecomeHealthy(m)
    \/ \E m \in Models : Crash(m)
    \/ \E name \in RequestNames : Start(name)
    \/ \E name \in RequestNames : Stop(name)
    \/ \E name \in RequestNames : Restart(name)
    \/ \E name \in RequestNames : SwitchBegin(Solo, name)
    \/ SwitchSample(Solo)
    \/ SwitchEvict(Solo)
    \/ SwitchResample(Solo)
    \/ SwitchStart(Solo)
    \/ SwitchReturn(Solo)

Spec == Init /\ [][Next]_vars

\* the same requests on the small card
InitSmall == InitOn(SmallGpuMB)

SpecSmall == InitSmall /\ [][Next]_vars

\* switch_model requests in flight together
NextConc ==
    \/ \E m \in Models : Age(m)
    \/ \E m \in Models : BecomeHealthy(m)
    \/ \E m \in Models : Crash(m)
    \/ \E p \in Procs, name \in RequestNames : SwitchBegin(p, name)
    \/ \E p \in Procs : SwitchSample(p)
    \/ \E p \in Procs : SwitchEvict(p)
    \/ \E p \in Procs : SwitchResample(p)
    \/ \E p \in Procs : SwitchStart(p)

SpecConc == Init /\ [][NextConc]_vars

\* ------------------------------------------------------------------------
\* External calls that do not return, and requests that are cancelled
\* ------------------------------------------------------------------------

\* which awaits are bounded: run_docker_command awaits process.communicate()
\* with no timeout, the /health probe is sent with timeout=5.0
Bounded == [docker |-> FALSE, health |-> TRUE]

\* the docker subprocess awaited next by the request never exits: the
\* coroutine stays at its await
SwitchHang(p) ==
    /\ InFlight(sw[p])
    /\ ~Bounded.docker
    /\ sw' = [sw EXCEPT ![p].pc = "hung"]
    /\ UNCHANGED << cont, gpu_total_mb, calls, read, diagnosed, last, boot >>

\* the request is cancelled: CancelledError is raised at the await the
\* coroutine is suspended at, and nothing in switch_model catches it
SwitchCancel(p) ==
    /\ InFlight(sw[p])
    /\ sw' = [sw EXCEPT ![p].pc = "cancelled"]
    /\ UNCHANGED << cont, gpu_total_mb, calls, read, diagnosed, last, boot >>

NextFaults ==
    \/ Next
    \/ SwitchHang(Solo)
    \/ SwitchCancel(Solo)

SpecFaults == Init /\ [][NextFaults]_vars

\* ------------------------------------------------------------------------
\* GET /v1/models/status
\* ------------------------------------------------------------------------

\* GET /v1/models without its filter
list_models_any(status, health) == TRUE

\* GET /v1/models: the entries of the snapshot it puts in its list
list_models(status, health) == status = "running" /\ health = "healthy"

\* the entry of model m in the answer: its container as inspected, the
\* status get_container_status gave, the /health probe (sent only when that
\* status is running), the status of the entry in the answer, and whether
\* GET /v1/models, which is built on the same answer, lists the model
StatusEntry(m) ==
    /\ \E log_ok \in LogAnswers(cont, {m}), reading \in Readings(gpu_total_mb) :
          LET gpu_info == get_gpu_memory_info(reading)
              container_status == get_container_status(cont[m], m, log_ok, gpu_info)
              health == IF container_status = "running"
                        THEN check_backend_health(cont[m]) ELSE "none"
              status == get_models_status(cont, m, log_ok, gpu_info)
          IN  /\ read' = [model |-> m, c |-> cont[m], log_ok |-> log_ok,
                          gpu_info |-> gpu_info,
                          container_status |-> container_status,
                          health |-> health,
                          status |-> status,
                          listed |-> list_models(status, health)]
              /\ diagnosed' = IF container_status \in {"failed", "insufficient_gpu_ram"}
                               THEN diagnosed \cup {m} ELSE diagnosed
    /\ UNCHANGED << cont, gpu_total_mb, sw, calls, last, boot >>

\* status reads among start, stop and restart requests
NextStatus ==
    \/ \E m \in Models : Age(m)
    \/ \E m \in Models : BecomeHealthy(m)
    \/ \E m \in Models : Crash(m)
    \/ \E name \in RequestNames : Start(name)
    \/ \E name \in RequestNames : Stop(name)
    \/ \E name \in RequestNames : Restart(name)
    \/ \E m \in Models : StatusEntry(m)

SpecStatus == Init /\ [][NextStatus]_vars

\* start, stop and restart requests whose answers are kept; a container
\* may never have been created
InitApi ==
    /\ gpu_total_mb = DeployedGpuMB
    /\ cont \in [Models -> {Absent, Exited0, Serving}]
    /\ SumMem({m \in Models : cont[m] = Serving}) * 1024 <= gpu_total_mb
    /\ sw = [p \in Procs |-> IdleFrame]
    /\ calls = 0
    /\ read = NoRead
    /\ diagnosed = {}
    /\ last = NoCall
    /\ boot = BootOver

NextApi ==
    \/ \E m \in Models : Age(m)
    \/ \E m \in Models : BecomeHealthy(m)
    \/ \E m \in Models : Crash(m)
    \/ \E name \in RequestNames : Start(name)
    \/ \E name \in RequestNames : Stop(name)
    \/ \E name \in RequestNames : Restart(name)

SpecApi == InitApi /\ [][NextApi]_vars

\* requests that name a model the registry does not have
NextUnknown ==
    \/ \E name \in RequestNames \ Models : Start(name)
    \/ \E name \in RequestNames \ Models : Stop(name)
    \/ \E name \in RequestNames \ Models : Restart(name)
    \/ \E name \in RequestNames \ Models : SwitchBegin(Solo, name)
    \/ SwitchReturn(Solo)

SpecUnknown == InitApi /\ [][NextUnknown]_vars

\* ------------------------------------------------------------------------
\* lifespan: the auto-start at startup, before any request is served
\* ------------------------------------------------------------------------

\* the models whose download check answers downloaded, in dict order
downloaded_models(artifacts) ==
    SelectSeq(ModelOrder, LAMBDA m : check_model_downloaded(artifacts[m]).downloaded)

\* the first entry of the list
largest_model_first(downloaded) == downloaded[1]

\* max(downloaded_models, key=gpu_memory_gb): the first of the largest
largest_model(downloaded) ==
    downloaded[CHOOSE i \in 1..Len(downloaded) :
                   /\ \A j \in 1..Len(downloaded) :
                          gpu_memory_gb(downloaded[j]) <= gpu_memory_gb(downloaded[i])
                   /\ \A j \in 1..(i - 1) :
                          gpu_memory_gb(downloaded[j]) < gpu_memory_gb(downloaded[i])]

\* docker ps: the vllm- containers that run, other than the target's,
\* sorted largest first; none when docker ps fails
running_model_containers(cs, model_name, ps_ok) ==
    IF ps_ok
    THEN SortLargestFirst(
             SelectSeq(ModelOrder,
                       LAMBDA m : m # model_name /\ cs[m].status = "running"))
    ELSE << >>

\* the auto-start is never skipped
SkipAutoStart_never(available_gb, required_memory_gb) == FALSE

\* should_start = False: the last reading is below the requirement
SkipAutoStart(available_gb, required_memory_gb) == available_gb < required_memory_gb

\* the download checks, the choice of the model, its status and docker ps
BootSelect ==
    /\ boot.pc = "init"
    /\ \E artifacts \in [Models -> Artifacts], ps_ok \in BOOLEAN :
          LET downloaded == downloaded_models(artifacts)
              f == [boot EXCEPT !.artifacts = artifacts,
                                !.downloaded_models = downloaded]
          IN  IF downloaded = << >>
              THEN boot' = [f EXCEPT !.pc = "done"]
              ELSE LET model_name == largest_model(downloaded)
                   IN  \E log_ok \in LogAnswers(cont, {model_name}),
                          reading \in GpuAnswers(cont, {model_name}, gpu_total_mb) :
                          LET status == get_container_status(
                                            cont[model_name], model_name, log_ok,
                                            get_gpu_memory_info(reading))
                              g == [f EXCEPT !.model_name = model_name,
                                             !.status = status]
                          IN  boot' =
                                IF status = "running"
                                THEN [g EXCEPT !.pc = "done"]
                                ELSE [g EXCEPT !.pc = "stop",
                                               !.running_model_containers =
                                                   running_model_containers(
                                                       cont, model_name, ps_ok)]
    /\ UNCHANGED << cont, gpu_total_mb, sw, calls, read, diagnosed, last >>

\* docker stop of the next running container; its result is not looked at
BootStop ==
    /\ boot.pc = "stop"
    /\ boot.stopped < Len(boot.running_model_containers)
    /\ \E ok \in BOOLEAN :
          LET model == boot.running_model_containers[boot.stopped + 1]
          IN  /\ cont' = IF ok THEN [cont EXCEPT ![model] = docker_stop(@)] ELSE cont
              /\ boot' = [boot EXCEPT
                             !.stopped = @ + 1,
                             !.cmds = Append(@, << "stop", model >>),
                             !.pc = IF boot.stopped + 1 = Len(boot.running_model_containers)
                                    THEN "poll" ELSE "stop"]
    /\ UNCHANGED << gpu_total_mb, sw, calls, read, diagnosed, last >>

\* no container had to be stopped: one reading decides
BootSample ==
    /\ boot.pc = "stop"
    /\ boot.running_model_containers = << >>
    /\ \E reading \in Readings(gpu_total_mb) :
          LET available_gb == get_gpu_memory_info(reading).available_gb
              skip == SkipAutoStart(available_gb, gpu_memory_gb(boot.model_name))
          IN  boot' = [boot EXCEPT !.available_gb = available_gb,
                                   !.should_start = ~skip,
                                   !.pc = IF skip THEN "done" ELSE "start"]
    /\ UNCHANGED << cont, gpu_total_mb, sw, calls, read, diagnosed, last >>

\* one round of the wait for the memory of the stopped containers
BootPoll ==
    /\ boot.pc = "poll"
    /\ boot.cycles < max_wait_cycles
    /\ \E reading \in Readings(gpu_total_mb) :
          LET available_gb == get_gpu_memory_info(reading).available_gb
              f == [boot EXCEPT !.available_gb = available_gb, !.cycles = @ + 1]
          IN  boot' =
                IF available_gb >= gpu_memory_gb(boot.model_name)
                THEN [f EXCEPT !.pc = "start"]
                ELSE IF f.cycles < max_wait_cycles
                THEN f
                ELSE IF SkipAutoStart(available_gb, gpu_memory_gb(boot.model_name))
                THEN [f EXCEPT !.pc = "done", !.should_start = FALSE]
                ELSE [f EXCEPT !.pc = "start"]
    /\ UNCHANGED << cont, gpu_total_mb, sw, calls, read, diagnosed, last >>

\* docker compose up -d of the chosen model
BootStart ==
    /\ boot.pc = "start"
    /\ \E ok \in BOOLEAN :
          /\ cont' = IF ok THEN [cont EXCEPT ![boot.model_name] = compose_up(@)]
                     ELSE cont
          /\ boot' = [boot EXCEPT !.pc = "done",
                                  !.cmds = Append(@, << "up", boot.model_name >>)]
    /\ UNCHANGED << gpu_total_mb, sw, calls, read, diagnosed, last >>

\* the containers lifespan may find: stopped, just started, serving
InitBoot ==
    /\ gpu_total_mb = DeployedGpuMB
    /\ cont \in [Models -> {Exited0, Fresh, Serving}]
    /\ SumMem({m \in Models : cont[m].status = "running"}) * 1024 <= gpu_total_mb
    /\ sw = [p \in Procs |-> IdleFrame]
    /\ calls = 0
    /\ read = NoRead
    /\ diagnosed = {}
    /\ last = Unrecorded
    /\ boot = NotBooted

NextBoot ==
    \/ BootSelect
    \/ BootStop
    \/ BootSample
    \/ BootPoll
    \/ BootStart

SpecBoot == InitBoot /\ [][NextBoot]_vars

\* ------------------------------------------------------------------------
\* switch_model requests alone, from at most one model being served
\* ------------------------------------------------------------------------

InitSwitch ==
    /\ gpu_total_mb = DeployedGpuMB
    /\ cont \in [Models -> {Exited0, Serving}]
    /\ Cardinality({m \in Models : cont[m] = Serving}) <= 1
    /\ sw = [p \in Procs |-> IdleFrame]
    /\ calls = 0
    /\ read = NoRead
    /\ diagnosed = {}
    /\ last = Unrecorded
    /\ boot = BootOver

NextSwitch ==
    \/ \E m \in Models : Age(m)
    \/ \E m \in Models : BecomeHealthy(m)
    \/ \E m \in Models : Crash(m)
    \/ \E name \in RequestNames : SwitchBegin(Solo, name)
    \/ SwitchSample(Solo)
    \/ SwitchEvict(Solo)
    \/ SwitchResample(Solo)
    \/ SwitchStart(Solo)
    \/ SwitchReturn(Solo)

SpecSwitch == InitSwitch /\ [][NextSwitch]_vars

\* what a log tail may hold
Phrases ==
    {"CUDA out of memory", "OutOfMemory", "Free memory", "GPU memory utilization",
     "gpu_memory_utilization", "out of memory", "Engine core initialization failed",
     "RuntimeError", "CUDA", "Traceback"}

LogTails == { L \in SUBSET Phrases : Cardinality(L) <= MaxPhrases }

\* containers a status read can come upon: never created, stopped, just
\* started, past its first minute, serving, exited with an error, and up for
\* two minutes
Observed ==
    {Absent, Exited0, Fresh, [Fresh EXCEPT !.uptime = 75], Serving}
    \cup { [Crashed(L) EXCEPT !.exit_code = e] : L \in LogTails, e \in {1, 137} }
    \cup { [status |-> "running", exit_code |-> 0, uptime |-> 120, health |-> h,
            logs |-> L, http |-> IF h = "healthy" THEN "healthy" ELSE "unhealthy"] :
              h \in {"starting", "unhealthy", "healthy"}, L \in LogTails }

\* one container in any of these states, the others stopped
InitClassifier ==
    /\ gpu_total_mb = DeployedGpuMB
    /\ \E m \in Models, c \in Observed :
          cont = [x \in Models |-> IF x = m THEN c ELSE Exited0]
    /\ sw = [p \in Procs |-> IdleFrame]
    /\ calls = 0
    /\ read = NoRead
    /\ diagnosed = {}
    /\ last = Unrecorded
    /\ boot = BootOver

NextClassifier == \E m \in Models : StatusEntry(m)

SpecClassifier == InitClassifier /\ [][NextClassifier]_vars

TypeOK ==
    /\ calls \in 0..MaxCalls
    /\ gpu_total_mb \in {DeployedGpuMB, SmallGpuMB}
    /\ \A m \in Models : cont[m].status \in {"not_found", "running", "exited"}
    /\ \A p \in Procs :
          sw[p].pc \in {"idle", "sample", "evict", "start", "done", "hung", "cancelled"}
    /\ diagnosed \subseteq Models
    /\ read.model \in Models \cup {"none"}

\* ------------------------------------------------------------------------
\* Properties
\* ------------------------------------------------------------------------

Frames == { sw[p] : p \in Procs }

required_memory_gb(f) == gpu_memory_gb(f.target_model)

\* the frame has taken its first GPU reading
Sampled(f) == f.available_gb # -1

\* the unload loop of the frame has run to its end
LoopOver(f) ==
    \/ f.pc = "start"
    \/ f.result \in {"success", "insufficient_memory"}
    \/ f.total_available # -1

\* docker stop or the start of the target is issued by request p in this step
IssuesCommand(p) ==
    \/ sw'[p].stops # sw[p].stops
    \/ sw[p].pc = "start" /\ sw'[p].pc = "done"

\* C1: at most one switch is in flight: a request issues a stop or the start
\* of its target only while no other switch_model request is between its
\* planning step and its start step.
C1_SingleFlight ==
    [][\A p \in Procs : IssuesCommand(p) =>
            \A q \in Procs \ {p} : ~InFlight(sw[q])]_vars

\* C2: the reserved memory of the models that are running (and healthy)
\* together never exceeds the total memory of the GPU.
C2_ReservedWithinTotal ==
    SumMem({ m \in Models : RunningHealthy(cont[m]) }) * 1024 <= gpu_total_mb

\* C3: a switch whose first reading shows at least the required memory stops
\* no model and reports no unloaded model.
C3_NoEvictionWhenFits ==
    \A f \in Frames :
        (Sampled(f) /\ required_memory_gb(f) <= f.available_gb)
            => (f.stops = {} /\ f.unloaded_models = << >> /\ f.running_models = << >>)

\* the switch fitted at once and was answered with success while another
\* model kept running
C3_Witness ==
    \E f \in Frames :
        /\ f.result = "success"
        /\ required_memory_gb(f) <= f.available_gb
        /\ \E m \in Models \ {f.target_model} : RunningHealthy(cont[m])

\* C4: the target of a switch is never a victim: it is not among the
\* candidates, no stop is issued for it and it is not reported as unloaded.
C4_TargetNeverVictim ==
    \A f \in Frames :
        /\ f.target_model \notin f.stops
        /\ f.target_model \notin Range(f.unloaded_models)
        /\ f.target_model \notin Range(f.running_models)

\* a switch is unloading other models while its own target is running and healthy
C4_Witness ==
    \E f \in Frames :
        /\ f.pc = "evict"
        /\ f.stops # {}
        /\ RunningHealthy(cont[f.target_model])

SortedLargestFirst(s) ==
    \A i, j \in 1..Len(s) : i < j => gpu_memory_gb(s[i]) >= gpu_memory_gb(s[j])

NoDuplicates(s) == \A i, j \in 1..Len(s) : i # j => s[i] # s[j]

\* what is missing when the switch is planned
Shortfall(f) == required_memory_gb(f) - f.available_gb

\* the first n candidates reserve at least the shortfall
Covers(f, n) == SumMem(Range(Prefix(f.running_models, n))) >= Shortfall(f)

\* C5: the candidates are the running models other than the target, largest
\* reservation first; when the unload loop ends, the models unloaded are the
\* shortest prefix of the candidates that covers the shortfall (if a prefix
\* covers it); and at no time does a proper subset of the models unloaded
\* cover the shortfall.
C5_MinimalLargestFirstPrefix ==
    [][\A p \in Procs :
         LET f == sw[p]
             g == sw'[p]
         IN  /\ (f.pc = "sample" /\ g.pc = "evict") =>
                   /\ SortedLargestFirst(g.running_models)
                   /\ NoDuplicates(g.running_models)
                   /\ Range(g.running_models) =
                        { m \in Models \ {g.target_model} : RunningHealthy(cont[m]) }
             /\ (LoopOver(g) /\ \E n \in 0..Len(g.running_models) : Covers(g, n)) =>
                   \E n \in 0..Len(g.running_models) :
                       /\ Covers(g, n)
                       /\ \A k \in 0..(n - 1) : ~Covers(g, k)
                       /\ g.unloaded_models = Prefix(g.running_models, n)
                       /\ g.stops \subseteq Range(g.unloaded_models)
             /\ Sampled(g) =>
                   \A T \in SUBSET Range(g.unloaded_models) :
                       T # Range(g.unloaded_models) => SumMem(T) < Shortfall(g)
    ]_vars

\* two of three running models were unloaded, the smallest was spared
C5_Witness ==
    \E f \in Frames :
        /\ f.pc = "start"
        /\ Len(f.running_models) = 3
        /\ Len(f.unloaded_models) = 2
        /\ Cardinality(f.stops) = 2

\* C6: a switch to a model that is running and healthy is answered
\* already_loaded at once and changes no container, issues no stop and no
\* start; asked again in the same state it answers the same.
C6_AlreadyLoadedNoEffect ==
    [][\A p \in Procs :
         LET f == sw[p]
             g == sw'[p]
         IN  /\ (f.pc = "idle" /\ g.pc # "idle" /\ g.target_model \in Models
                   /\ RunningHealthy(cont[g.target_model])) =>
                   /\ g.pc = "done"
                   /\ g.result = "already_loaded"
                   /\ cont' = cont
             /\ g.result = "already_loaded" =>
                   /\ g.stops = {} /\ g.unloaded_models = << >>
                   /\ g.start_result = "none"
                   /\ ~Sampled(g)
    ]_vars

\* two requests for the same running model have both been answered already_loaded
C6_Witness ==
    \E p, q \in Procs :
        /\ p # q
        /\ sw[p].result = "already_loaded"
        /\ sw[q].result = "already_loaded"
        /\ sw[p].target_model = sw[q].target_model
        /\ RunningHealthy(cont[sw[p].target_model])

\* C7: a switch to a model that needs more than the total memory of the GPU
\* stops nothing and does not get as far as starting its target.
C7_CapacityPrecheck ==
    \A f \in Frames :
        (f.target_model \in Models /\ required_memory_gb(f) * 1024 > gpu_total_mb)
            => (f.stops = {} /\ f.unloaded_models = << >> /\ f.pc # "start")

\* C8: a switch whose free memory plus the reservations of all running
\* models other than the target is less than the requirement stops nothing.
C8_InfeasibleTouchesNothing ==
    \A f \in Frames :
        (Sampled(f)
           /\ f.available_gb + SumMem(Range(f.running_models)) < required_memory_gb(f))
            => (f.stops = {} /\ f.unloaded_models = << >>)

\* Scenario A: 96 GB card, the 81 GB and the 10 GB model running, 5 GB free,
\* switch to the 43 GB model
ScenarioA(f) ==
    /\ gpu_total_mb = DeployedGpuMB
    /\ f.target_model = "deepseek-coder-33b-instruct"
    /\ f.available_gb = 5
    /\ Range(f.running_models) = {"gpt-oss-120b", "mistral-7b-v0.1"}

\* C9: in scenario A only the 81 GB model is stopped and reported unloaded,
\* the 10 GB model is left alone, a refreshed reading of at least 43 GB lets
\* the switch go on to start_model, and when start_model does not fail the
\* answer is success with unloaded_models = [the 81 GB model].
C9_ScenarioA ==
    \A f \in Frames :
        ScenarioA(f) =>
            /\ f.stops \subseteq {"gpt-oss-120b"}
            /\ "mistral-7b-v0.1" \notin Range(f.unloaded_models)
            /\ LoopOver(f) => f.unloaded_models = << "gpt-oss-120b" >>
            /\ f.total_available >= 43 =>
                  \/ f.pc = "start"
                  \/ f.pc = "done" /\ f.result \in {"success", "http_400", "http_500"}
            /\ (f.pc = "done" /\ f.total_available >= 43 /\ f.start_result # "none") =>
                  f.result = "success"
            /\ f.result = "success" =>
                  /\ f.start_result \in {"starting", "running"}
                  /\ f.total_available >= 43

\* scenario A has run to its success answer: the 81 GB model is stopped, the
\* 10 GB model still serves, the target has been started
C9_Witness ==
    \E f \in Frames :
        /\ ScenarioA(f)
        /\ f.result = "success"
        /\ f.start_result = "starting"
        /\ f.stops = {"gpt-oss-120b"}
        /\ cont["gpt-oss-120b"].status = "exited"
        /\ RunningHealthy(cont["mistral-7b-v0.1"])
        /\ cont["deepseek-coder-33b-instruct"].status = "running"

\* C10: a switch that has unloaded models gives up with insufficient_memory
\* only after it has waited for the release for the whole timeout.
C10_WaitsForRelease ==
    \A f \in Frames :
        (f.result = "insufficient_memory" /\ f.unloaded_models # << >>)
            => f.waited >= ReleaseTimeout

\* C11: when the reading taken after the unload loop is below the requirement
\* the switch is answered insufficient_memory in that step, which issues no
\* docker command: start_model is not called for the target and the models
\* it stopped are left as they are; after the answer the request issues
\* nothing either.
C11_ShortAfterUnloadEnds ==
    [][\A p \in Procs :
         LET f == sw[p]
             g == sw'[p]
         IN  /\ (f.pc = "evict" /\ g.total_available # -1
                   /\ g.total_available < required_memory_gb(g)) =>
                   /\ g.pc = "done"
                   /\ g.result = "insufficient_memory"
                   /\ g.start_result = "none"
                   /\ g.stops = f.stops
                   /\ cont' = cont
             /\ (f.result = "insufficient_memory" /\ g # f) =>
                   /\ g = IdleFrame
                   /\ cont' = cont
    ]_vars

\* a switch stopped a model, was answered insufficient_memory, and the model
\* it stopped and its target are both down
C11_Witness ==
    \E f \in Frames :
        /\ f.result = "insufficient_memory"
        /\ f.stops # {}
        /\ \A m \in f.stops : cont[m].status = "exited"
        /\ cont[f.target_model].status # "running"

\* C12: a switch one of whose GPU readings failed is answered with an error
\* and uses the reading for nothing: it is neither unloading nor starting,
\* nor answered insufficient_memory or success.
C12_FailedSampleEndsSwitch ==
    \A f \in Frames :
        f.sample_failed => (f.pc = "done" /\ f.result = "http_500")

\* C13: a failed stop_model or start_model ends the switch in that step with
\* the error: after a failed stop nothing is recorded as unloaded, no
\* container has changed and the target is not started; a failed start
\* leaves every other model as it was; the loop goes on past a running model
\* only when that model has been stopped; after the error the request issues
\* nothing.
C13_FailureEndsSwitch ==
    [][\A p \in Procs :
         LET f == sw[p]
             g == sw'[p]
         IN  /\ (f.pc = "evict" /\ g.result = "http_500") =>
                   /\ g.pc = "done"
                   /\ g.unloaded_models = f.unloaded_models
                   /\ g.start_result = "none"
                   /\ cont' = cont
             /\ (f.pc = "evict" /\ g.pc = "evict" /\ g.stops # f.stops) =>
                   \A m \in g.stops \ f.stops :
                       cont[m].status = "running" => cont'[m].status = "exited"
             /\ (f.pc = "start" /\ g # f) =>
                   /\ g.pc = "done"
                   /\ g.result = "success" => g.start_result \in {"starting", "running"}
                   /\ g.result = "http_500" =>
                         \A m \in Models \ {f.target_model} : cont'[m] = cont[m]
             /\ (f.result = "http_500" /\ g # f) =>
                   /\ g = IdleFrame
                   /\ cont' = cont
    ]_vars

\* a switch stopped one model, its next docker stop failed, and it was
\* answered with the error while the second model still runs
C13_Witness ==
    \E f \in Frames :
        /\ f.result = "http_500"
        /\ f.start_result = "none"
        /\ Len(f.unloaded_models) = 1
        /\ Cardinality(f.stops) = 2
        /\ cont[f.unloaded_models[1]].status = "exited"
        /\ \E m \in f.stops : RunningHealthy(cont[m])

\* C14: no switch is left waiting for an external call that does not return:
\* every call is bounded, so the request always comes to its answer.
C14_NoCallWaitsForever ==
    \A f \in Frames : f.pc # "hung"

\* C15: a request cancelled after it has stopped a model (all its GPU
\* readings having answered) is not abandoned there: it has started its target or has been answered insufficient_memory.
C15_CancelledSwitchCompletes ==
    \A f \in Frames :
        (f.pc = "cancelled" /\ f.stops # {} /\ ~f.sample_failed)
            => (f.start_result # "none" \/ f.result = "insufficient_memory")

\* C16: a model that a status entry has shown failed or out of GPU memory is
\* not shown running by a later entry unless start_model succeeded for it in
\* between.
C16_DiagnosisHeldUntilStart ==
    \A m \in diagnosed : ~(read.model = m /\ read.status = "running")

\* the last entry is about a container that exited with a non-zero code
ExitedNonZero == read.model # "none" /\ read.c.status = "exited" /\ read.c.exit_code # 0

\* the strings whose presence in the log means out of GPU memory
OomMarkers ==
    {"Free memory", "GPU memory utilization", "gpu_memory_utilization",
     "OutOfMemory", "CUDA out of memory"}

HasOomMarker(logs) == \E k \in OomMarkers : InLogs(k, logs)

\* the strings that together mean the engine failed to initialize
InitFailureMarkers == {"Engine core initialization failed", "RuntimeError"}

HasInitFailureMarkers(logs) == \A k \in InitFailureMarkers : InLogs(k, logs)

C18_InitFailureCrossCheck ==
    (ExitedNonZero /\ read.log_ok /\ ~HasOomMarker(read.c.logs)
       /\ HasInitFailureMarkers(read.c.logs))
        => read.container_status =
              IF gpu_memory_gb(read.model) > read.gpu_info.available_gb + OVERHEAD_BUFFER_GB
              THEN "insufficient_gpu_ram" ELSE "failed"

\* a 10 GB model with 5 GB free is within the margin: failed
C18_Witness ==
    /\ ExitedNonZero
    /\ read.log_ok
    /\ ~HasOomMarker(read.c.logs)
    /\ HasInitFailureMarkers(read.c.logs)
    /\ gpu_memory_gb(read.model) = 10
    /\ read.gpu_info.available_gb = 5
    /\ read.container_status = "failed"

\* C19: a container that exited with a non-zero code and whose log could not
\* be read, or holds neither an out-of-memory marker nor the
\* initialization-failure markers, is classified failed, and its entry says
\* failed: not running, not loading, not exited.
C19_InconclusiveIsFailed ==
    (ExitedNonZero
       /\ (~read.log_ok
             \/ (~HasOomMarker(read.c.logs) /\ ~HasInitFailureMarkers(read.c.logs))))
        => (read.container_status = "failed" /\ read.status = "failed")

\* exit code 137 and docker logs did not answer: failed
C19_Witness ==
    /\ ExitedNonZero
    /\ read.c.exit_code = 137
    /\ ~read.log_ok
    /\ read.c.logs = {"CUDA out of memory"}
    /\ read.status = "failed"

\* C20 as stated: an entry says running only if the /health probe sent for
\* it answered healthy, and the entry of every running container whose probe
\* is not healthy says loading.
C20_RunningOnlyIfHealthy ==
    read.model # "none" =>
        /\ read.status = "running" =>
              (read.health = "healthy" /\ read.c.http = "healthy")
        /\ (read.c.status = "running" /\ read.c.http # "healthy") =>
              read.status = "loading"

\* up for more than 90 s, docker health still starting, an error in the log
Stuck(c, log_ok) ==
    /\ c.status = "running" /\ c.uptime > STUCK_UPTIME /\ c.health = "starting"
    /\ log_ok
    /\ \E k \in InitFailureMarkers : InLogs(k, c.logs)

\* C20, amended: an entry says running only if the /health probe sent for it
\* answered healthy; the entry of a running container whose probe is not
\* healthy says loading, unless the container is stuck, whose entry says
\* neither running nor loading.
C20_RunningOnlyIfHealthy_Amended ==
    read.model # "none" =>
        /\ read.status = "running" =>
              (read.health = "healthy" /\ read.c.http = "healthy")
        /\ (read.c.status = "running" /\ read.c.http # "healthy") =>
              IF Stuck(read.c, read.log_ok)
              THEN read.status \notin {"running", "loading"}
              ELSE read.status = "loading"

\* a container up for over a minute whose backend does not answer /health
\* yet: the classifier says running, the entry says loading
C20_Witness ==
    /\ read.c.status = "running"
    /\ read.c.uptime >= LOADING_UPTIME
    /\ read.c.http = "unhealthy"
    /\ read.container_status = "running"
    /\ read.health = "unhealthy"
    /\ read.status = "loading"

\* C21: GET /v1/models lists a model exactly when its entry in the status
\* answer says running with health healthy; a listed model has a container
\* that is up for a minute or more and answers /health, so no model that is
\* stopped, loading, failed or unhealthy is listed.
C21_ListedIffRunningHealthy ==
    read.model # "none" =>
        /\ read.listed <=> (read.status = "running" /\ read.health = "healthy")
        /\ read.listed => RunningHealthy(read.c)
        /\ read.c.status # "running" => ~read.listed
        /\ read.status \in {"loading", "failed", "exited", "not_found",
                             "requires_unload", "insufficient_gpu_ram"} => ~read.listed

\* a serving model has been listed
C21_Witness ==
    /\ read.listed
    /\ read.c = Serving
    /\ read.status = "running"

\* C23: a running container that has been up for more than 90 s and does not
\* answer /health, its docker health starting or unhealthy, is classified
\* failed or insufficient_gpu_ram, with the diagnosis the same log gives for
\* a container that exited with an error: its entry never says loading.
C23_StuckScannedAsExited ==
    (read.model # "none" /\ read.c.status = "running" /\ read.c.uptime > STUCK_UPTIME
       /\ read.c.http # "healthy" /\ read.c.health \in {"starting", "unhealthy"}
       /\ read.log_ok)
        => /\ read.container_status \in {"failed", "insufficient_gpu_ram"}
           /\ read.container_status =
                 get_container_status(Crashed(read.c.logs), read.model,
                                      read.log_ok, read.gpu_info)
           /\ read.status # "loading"

\* C30: in a success answer freed_gb is the sum of the registry's
\* gpu_memory_gb over the models of unloaded_models, each of which is there
\* once.
C30_FreedIsStaticSum ==
    \A f \in Frames :
        f.result = "success" =>
            /\ NoDuplicates(f.unloaded_models)
            /\ f.freed_gb = SumMem(Range(f.unloaded_models))
            /\ f.freed_gb = f.freed_memory

\* a success answer that reports one of two candidates unloaded
C30_Witness ==
    \E f \in Frames :
        /\ f.result = "success"
        /\ Len(f.unloaded_models) = 1
        /\ Len(f.running_models) = 2
        /\ f.freed_gb = gpu_memory_gb(f.unloaded_models[1])

\* a running container past its first minute and short of 90 s whose backend
\* does not answer /health
StillLoading(c) ==
    /\ c.status = "running"
    /\ c.uptime >= LOADING_UPTIME /\ c.uptime < STUCK_UPTIME
    /\ c.http # "healthy"

\* C22: start_model reads the status of a container that is up between 60
\* and 90 s and does not answer /health as loading, and does not answer
\* that the model is already running.
C22_StillLoadingNotRunning ==
    (last.op = "start" /\ StillLoading(last.c) /\ last.artifact = "complete")
        => (last.status = "loading" /\ last.result # "running")

\* C24: start_model on a container it finds failed or out of GPU memory
\* issues docker rm and then the start command, in that order, and a start
\* that succeeds leaves a new container with none of the old log; on a
\* container it finds exited or not created it issues no docker rm.
C24_RemoveBeforeStart ==
    [][(last' # last /\ last'.op = "start" /\ last'.cmds # << >>) =>
          /\ last'.status \in {"failed", "insufficient_gpu_ram"} =>
                /\ last'.cmds = << "rm", "up" >>
                /\ last'.result = "starting" => cont'[last'.name] = Fresh
          /\ last'.status \in {"exited", "not_found"} =>
                /\ "rm" \notin Range(last'.cmds)
                /\ Len(last'.cmds) = 1
    ]_vars

\* a crashed container was removed and started again
C24_Witness ==
    /\ last.op = "start"
    /\ last.c.exit_code # 0
    /\ last.status \in {"failed", "insufficient_gpu_ram"}
    /\ last.cmds = << "rm", "up" >>
    /\ last.result = "starting"
    /\ cont[last.name].status = "running"

\* C25: start_model on a model whose container it would read as running
\* answers running and issues no docker command, whatever the download
\* check says.
C25_StartIdempotent ==
    (last.op = "start" /\ last.status = "running")
        => (last.result = "running" /\ last.cmds = << >>)

\* C29: start, stop, restart and switch requests that name a model not in
\* CONTAINER_NAMES are answered 404 without a status read and without a
\* docker command, and no container changes.
C29_UnknownNameIs404 ==
    [][/\ (last' # last /\ last'.name \notin Models) =>
             /\ last'.result = "http_404"
             /\ last'.cmds = << >>
             /\ last'.status = "none"
             /\ cont' = cont
       /\ \A p \in Procs :
             (sw[p].pc = "idle" /\ sw'[p].pc # "idle"
                /\ sw'[p].target_model \notin Models) =>
                 /\ sw'[p].pc = "done"
                 /\ sw'[p].result = "http_404"
                 /\ sw'[p].stops = {}
                 /\ ~Sampled(sw'[p])
                 /\ cont' = cont
    ]_vars

\* a restart and a switch that named an unknown model were both answered 404
\* and every container is as it was created
C29_Witness ==
    /\ last.op = "restart"
    /\ last.name \notin Models
    /\ last.result = "http_404"
    /\ sw[Solo].result = "http_404"
    /\ \A m \in Models : cont[m] \in {Absent, Exited0, Serving}

\* the commands lifespan has issued that start a container
BootStarts == { i \in 1..Len(boot.cmds) : boot.cmds[i][1] = "up" }

\* C26: once lifespan has made its choice, the model it targets is one whose
\* download check answers complete and no complete model reserves more
\* memory; a target is chosen whenever some model is complete; when none is,
\* lifespan ends without a target and without a stop or start command; the
\* only container ever started is the target's.
C26_BootTargetsLargestDownloaded ==
    boot.pc # "init" =>
        /\ boot.model_name # "none" =>
              /\ boot.artifacts[boot.model_name] = "complete"
              /\ \A m \in Models :
                    boot.artifacts[m] = "complete" =>
                        gpu_memory_gb(m) <= gpu_memory_gb(boot.model_name)
        /\ (\E m \in Models : boot.artifacts[m] = "complete") =>
              boot.model_name # "none"
        /\ (\A m \in Models : boot.artifacts[m] # "complete") =>
              boot.model_name = "none" /\ boot.cmds = << >> /\ boot.pc = "done"
        /\ \A i \in BootStarts : boot.cmds[i][2] = boot.model_name

\* lifespan started the coder model while the largest model was half
\* downloaded and a smaller one was complete
C26_Witness ==
    /\ boot.pc = "done"
    /\ boot.model_name = "deepseek-coder-33b-instruct"
    /\ boot.artifacts["gpt-oss-120b"] = "partial"
    /\ boot.artifacts["mistral-7b-v0.1"] = "complete"
    /\ BootStarts # {}

\* the models switch_model unloads when it is asked for target with the
\* containers cs and the reading gpu_info: none when the target is loaded or
\* fits, else the candidates up to the first that covers what is missing
SwitchUnloads(cs, target, log_ok, gpu_info) ==
    IF AlreadyLoaded(cs[target], target, log_ok, gpu_info) THEN << >>
    ELSE IF ~NeedsUnload(gpu_info.available_gb, gpu_memory_gb(target)) THEN << >>
    ELSE LET rm == RunningModels(cs, target, log_ok, gpu_info)
             enough == { n \in 0..Len(rm) :
                           gpu_info.available_gb + SumList(Prefix(rm, n))
                               >= gpu_memory_gb(target) }
         IN  IF enough = {} THEN rm
             ELSE Prefix(rm, CHOOSE n \in enough : \A k \in enough : n <= k)

\* C27: when lifespan has chosen its target, the models it goes on to stop
\* are those a switch_model request for the same target would unload from
\* the same containers, under one of the readings nvidia-smi can give.
C27_BootStopsWhatSwitchWould ==
    [][boot.pc = "init" /\ boot'.model_name # "none" =>
          \E reading \in Readings(gpu_total_mb), log_ok \in BOOLEAN :
              Range(SwitchUnloads(cont, boot'.model_name, log_ok,
                                  get_gpu_memory_info(reading)))
                  = IF boot'.pc = "stop"
                    THEN Range(boot'.running_model_containers) ELSE {}]_vars

\* C28: lifespan polls the GPU at most max_wait_cycles times and the count
\* never goes back; when the last poll, after all the stops, still reads
\* less than the chosen model requires, lifespan ends with should_start
\* false and without a start command; once ended it takes no further step.
C28_ShortAfterWaitSkipsStart ==
    [][/\ boot.cycles <= boot'.cycles /\ boot'.cycles <= max_wait_cycles
       /\ boot.pc = "done" => boot' = boot /\ cont' = cont
       /\ boot'.pc = "poll" => boot'.stopped = Len(boot'.running_model_containers)
       /\ (/\ boot'.cycles = max_wait_cycles
           /\ boot'.available_gb < gpu_memory_gb(boot'.model_name)) =>
              /\ boot'.pc = "done"
              /\ ~boot'.should_start
              /\ \A i \in 1..Len(boot'.cmds) : boot'.cmds[i][1] # "up"]_vars

\* lifespan stopped containers, polled to the limit and gave up
C28_Witness ==
    /\ boot.pc = "done"
    /\ boot.stopped > 0
    /\ boot.cycles = max_wait_cycles
    /\ boot.available_gb < gpu_memory_gb(boot.model_name)
    /\ ~boot.should_start

\* the models whose container docker reports running
RunningContainers == { m \in Models : cont[m].status = "running" }

\* C31: whatever switch_model requests have been served, starting from at
\* most one model being served, at most one model container is running.
C31_AtMostOneRunning == Cardinality(RunningContainers) <= 1

\* C32: when a switch has been answered with success and its target is
\* running and healthy, the target's container runs, the target is not
\* listed as unloaded, and no model listed in unloaded_models has a running
\* container.
C32_UnloadedAreStopped ==
    \A f \in Frames :
        (/\ f.pc = "done"
         /\ f.result = "success"
         /\ RunningHealthy(cont[f.target_model])) =>
            /\ f.target_model \in RunningContainers
            /\ f.target_model \notin Range(f.unloaded_models)
            /\ Range(f.unloaded_models) \cap RunningContainers = {}

\* a switch that stopped a model has succeeded and its target serves
C32_Witness ==
    \E f \in Frames :
        /\ f.pc = "done"
        /\ f.result = "success"
        /\ RunningHealthy(cont[f.target_model])
        /\ f.stops # {}
        /\ f.stops = Range(f.unloaded_models)

\* C33: the status entry of a model whose container does not exist says
\* not_found, and that of a model whose container exited with code 0 says
\* exited, whatever the GPU reading of that status read.
C33_AbsentAndStoppedKeepState ==
    read.model # "none" =>
        /\ read.c.status = "not_found" => read.status = "not_found"
        /\ (read.c.status = "exited" /\ read.c.exit_code = 0) =>
              read.status = "exited"

\* C34: a switch that ends because the download check of start_model
\* refused its target (HTTP 400) has issued no docker stop.
C34_NotDownloadedStopsNothing ==
    \A f \in Frames :
        (f.pc = "done" /\ f.result = "http_400") => f.stops = {}

\* the last GPU reading the switch has taken: the one after the unload loop
\* when Step 4 was entered, else the first
MostRecentSample(f) ==
    IF f.total_available # -1 THEN f.total_available ELSE f.available_gb

\* C35: a switch reaches the call of start_model for its target only when
\* the last GPU reading it took shows at least the memory the target
\* requires.
C35_StartOnlyIfLastSampleFits ==
    \A f \in Frames :
        (f.pc = "start" \/ f.result = "success") =>
            /\ Sampled(f)
            /\ MostRecentSample(f) >= required_memory_gb(f)

\* the target was started on the reading taken after a model was stopped
C35_Witness ==
    \E f \in Frames :
        /\ f.result = "success"
        /\ f.stops # {}
        /\ f.available_gb < required_memory_gb(f)
        /\ f.total_available >= required_memory_gb(f)

\* C36: the candidates a switch lists are models other than its target whose
\* container, at the time of the status snapshot, runs, is past its loading
\* minute and answers /health; the list is not changed afterwards; docker
\* stop is issued only for listed models, only listed models are recorded as
\* unloaded, and freed_memory is the sum of the reservations of the models
\* recorded.
C36_OnlyRunningHealthyStopped ==
    [][\A p \in Procs :
          /\ (sw[p].pc = "sample" /\ sw'[p].pc = "evict") =>
                \A m \in Range(sw'[p].running_models) :
                    /\ m # sw[p].target_model
                    /\ cont[m].status = "running"
                    /\ cont[m].uptime >= LOADING_UPTIME
                    /\ cont[m].http = "healthy"
          /\ (sw[p].pc = "evict" /\ sw'[p].pc # "idle") =>
                sw'[p].running_models = sw[p].running_models
          /\ sw'[p].stops \subseteq Range(sw'[p].running_models)
          /\ Range(sw'[p].unloaded_models) \subseteq Range(sw'[p].running_models)
          /\ sw'[p].freed_memory = SumList(sw'[p].unloaded_models)]_vars

\* a switch stopped a model while the container of a third model was
\* running without serving yet, and left that one alone
C36_Witness ==
    \E f \in Frames :
        /\ f.stops # {}
        /\ \E m \in Models \ (f.stops \cup {f.target_model}) :
              /\ cont[m].status = "running"
              /\ ~RunningHealthy(cont[m])
              /\ m \notin Range(f.running_models)

\* C37: a switch stops no container with docker stop while the container of
\* its own target is running without being both past its loading minute and
\* healthy.
C37_LoadingTargetStopsNothing ==
    [][\A p \in Procs :
          (\E m \in sw'[p].stops \ sw[p].stops :
               cont[m].status = "running" /\ cont'[m].status # "running") =>
              ~(/\ cont[sw[p].target_model].status = "running"
                /\ ~RunningHealthy(cont[sw[p].target_model]))]_vars

\* C38: the status entry of a model whose container docker reports running
\* never says exited or not_found.
C38_LiveNeverReportedStopped ==
    (read.model # "none" /\ read.c.status = "running") =>
        read.status \notin {"exited", "not_found"}

\* C39: a stop request for a model whose container does not exist or exited
\* with code 0 issues no docker command, is answered with the status found
\* (not_found or exited) and leaves every container as it was; a stop
\* request never changes the container of a model it does not name.
C39_StopNotRunningIsNoOp ==
    [][(calls' = calls + 1 /\ last'.op = "stop" /\ last'.name \in Models) =>
          /\ last'.c = cont[last'.name]
          /\ \A m \in Models \ {last'.name} : cont'[m] = cont[m]
          /\ (\/ last'.c.status = "not_found"
              \/ last'.c.status = "exited" /\ last'.c.exit_code = 0) =>
                /\ last'.cmds = << >>
                /\ last'.result = last'.c.status
                /\ cont' = cont]_vars

\* a stop request for a stopped model was answered while another model ran
C39_Witness ==
    /\ last.op = "stop"
    /\ last.name \in Models
    /\ last.c.status = "exited"
    /\ last.c.exit_code = 0
    /\ last.result = "exited"
    /\ \E m \in Models \ {last.name} : cont[m].status = "running"

====
